---- MODULE Spec2Model ----
(***************************************************************************)
(* Astronaut Survival AI API (src/main.py): the train / predict /          *)
(* predict-json handlers over the process-wide model state and the three   *)
(* joblib files, and the two rule cascades (calculate_risk_level,          *)
(* generate_feedback) and the feature encoding they sit beside.            *)
(*                                                                         *)
(* Numbers: percentages of the sensor thresholds are kept in tenths        *)
(* (19.5 is 195, 0.5 is 5), probabilities in percent (0.8 is 80).          *)
(***************************************************************************)
EXTENDS Integers, Sequences, FiniteSets, TLC

VARIABLES
    model,           \* global model (main.py:27)
    vectorizer,      \* global vectorizer (main.py:26)
    scaler,          \* global scaler (main.py:28)
    feature_names,   \* global feature_names (main.py:29): the run that set it, 0 = []
    training_stats,  \* global training_stats (main.py:30): the run that set it, 0 = {}
    disk,            \* the three joblib files
    inflight,        \* /predict requests suspended at `await file.read()`
    trains,          \* number of /train calls so far (names the objects a call builds)
    committed,       \* history: the runs whose train call returned 200
    last,            \* history: the request that completed last
    call             \* one call of a pure function: its arguments and result

vars == <<model, vectorizer, scaler, feature_names, training_stats, disk,
          inflight, trains, committed, last, call>>

(***************************************************************************)
(* Bounds                                                                  *)
(***************************************************************************)
MaxTrains == 2
MaxDim == 2
MaxInflight == 1

(***************************************************************************)
(* Objects.  An estimator object is named by the train call that built it, *)
(* is fitted or not, and has the number of features it was fitted on; a    *)
(* classifier also has the number of classes it saw.                       *)
(***************************************************************************)
None == [run |-> 0, fitted |-> FALSE, dim |-> 0, classes |-> 0]

Unfitted(r) == [run |-> r, fitted |-> FALSE, dim |-> 0, classes |-> 0]

Fitted(r, d, c) == [run |-> r, fitted |-> TRUE, dim |-> d, classes |-> c]

MODEL_PATH == "astronaut_model.pkl"
VECTORIZER_PATH == "vectorizer.pkl"
SCALER_PATH == "scaler.pkl"

Paths == {MODEL_PATH, VECTORIZER_PATH, SCALER_PATH}

\* A file: absent, holding a dumped object, or cut short by a failed write.
Absent == [state |-> "absent", obj |-> None]

Dumped(o) == [state |-> "ok", obj |-> o]

Torn == [state |-> "corrupt", obj |-> None]

Mem == [model |-> model, vectorizer |-> vectorizer, scaler |-> scaler,
        feature_names |-> feature_names, training_stats |-> training_stats]

\* The globals as the module's top level leaves them (main.py:26-30).
Mem0 == [model |-> None, vectorizer |-> None, scaler |-> None,
         feature_names |-> 0, training_stats |-> 0]

Disk0 == [p \in Paths |-> Absent]

NoResponse == [astronomer_status |-> "", confidence |-> 0, risk_level |-> "",
               feedback |-> <<>>, alive |-> 0, dead |-> 0]

(***************************************************************************)
(* calculate_risk_level (main.py:133-163).  An observation is a function   *)
(* from the field names it contains to their values.                       *)
(***************************************************************************)
Has(data, f) == f \in DOMAIN data

risk_score(data) ==
    LET oxygen == IF Has(data, "oxygen_level")
                  THEN IF data["oxygen_level"] < 180 \/ data["oxygen_level"] > 250
                       THEN 3
                       ELSE IF data["oxygen_level"] < 195 \/ data["oxygen_level"] > 235
                            THEN 1
                            ELSE 0
                  ELSE 0
        co2 == IF Has(data, "co2_level") /\ data["co2_level"] > 10 THEN 3 ELSE 0
        rad == IF Has(data, "radiation") /\ data["radiation"] > 5 THEN 3 ELSE 0
        food == IF Has(data, "food_supply_days") /\ data["food_supply_days"] < 70
                THEN 2 ELSE 0
        water == IF Has(data, "water_supply_days") /\ data["water_supply_days"] < 30
                 THEN 2 ELSE 0
    IN  oxygen + co2 + rad + food + water

\* calculate_risk_level with the HIGH threshold compared by > instead of >=.
calculate_risk_level_gt(data, status, confidence) ==
    IF status = "dead" THEN "CRITICAL"
    ELSE IF risk_score(data) > 5 THEN "HIGH"
    ELSE IF risk_score(data) >= 2 THEN "MEDIUM"
    ELSE "LOW"

\* calculate_risk_level with HIGH from a score of 3 on.
calculate_risk_level_high3(data, status, confidence) ==
    IF status = "dead" THEN "CRITICAL"
    ELSE IF risk_score(data) >= 3 THEN "HIGH"
    ELSE IF risk_score(data) >= 2 THEN "MEDIUM"
    ELSE "LOW"

calculate_risk_level(data, status, confidence) ==
    IF status = "dead" THEN "CRITICAL"
    ELSE IF risk_score(data) >= 5 THEN "HIGH"
    ELSE IF risk_score(data) >= 2 THEN "MEDIUM"
    ELSE "LOW"

(***************************************************************************)
(* generate_feedback (main.py:47-131).  A message is its severity mark,    *)
(* its text with the value left out, and the value formatted into it.      *)
(***************************************************************************)
Msg(mark, text, value) == [mark |-> mark, text |-> text, value |-> value]

Placeholder == Msg("", "No specific feedback available", 0)

oxygen_feedback(data) ==
    IF ~Has(data, "oxygen_level") THEN <<>>
    ELSE LET o2 == data["oxygen_level"]
         IN  IF o2 < 180 THEN <<Msg("CRITICAL", "Oxygen at {o2}% - Immediate action required!", o2)>>
             ELSE IF o2 < 195 THEN <<Msg("WARNING", "Oxygen at {o2}% - Below safe minimum", o2)>>
             ELSE IF o2 > 235 THEN <<Msg("WARNING", "Oxygen at {o2}% - Above safe maximum", o2)>>
             ELSE <<Msg("OK", "Oxygen at {o2}% - Normal", o2)>>

co2_feedback(data) ==
    IF ~Has(data, "co2_level") THEN <<>>
    ELSE LET co2 == data["co2_level"]
         IN  IF co2 > 10 THEN <<Msg("CRITICAL", "CO2 at {co2}% - Scrubbers failing!", co2)>>
             ELSE IF co2 > 5 THEN <<Msg("WARNING", "CO2 at {co2}% - Monitor closely", co2)>>
             ELSE <<Msg("OK", "CO2 at {co2}% - Normal", co2)>>

temperature_feedback(data) ==
    IF ~(Has(data, "temperature") \/ Has(data, "heat")) THEN <<>>
    ELSE LET temp == IF Has(data, "temperature") THEN data["temperature"]
                     ELSE IF Has(data, "heat") THEN data["heat"] ELSE 0
         IN  IF temp < 150 THEN <<Msg("WARNING", "Temperature {temp}C - Too cold", temp)>>
             ELSE IF temp > 300 THEN <<Msg("WARNING", "Temperature {temp}C - Too hot", temp)>>
             ELSE <<Msg("OK", "Temperature {temp}C - Comfortable", temp)>>

humidity_feedback(data) ==
    IF ~Has(data, "humidity") THEN <<>>
    ELSE LET humidity == data["humidity"]
         IN  IF humidity < 300 THEN <<Msg("WARNING", "Humidity {humidity}% - Too dry", humidity)>>
             ELSE IF humidity > 700 THEN <<Msg("WARNING", "Humidity {humidity}% - Too humid", humidity)>>
             ELSE <<Msg("OK", "Humidity {humidity}% - Normal", humidity)>>

radiation_feedback(data) ==
    IF ~Has(data, "radiation") THEN <<>>
    ELSE LET rad == data["radiation"]
         IN  IF rad > 5 THEN <<Msg("CRITICAL", "Radiation {rad} mSv - Seek shelter!", rad)>>
             ELSE IF rad > 1 THEN <<Msg("WARNING", "Radiation {rad} mSv - Elevated levels", rad)>>
             ELSE <<Msg("OK", "Radiation {rad} mSv - Safe", rad)>>

food_feedback(data) ==
    IF ~Has(data, "food_supply_days") THEN <<>>
    ELSE LET food == data["food_supply_days"]
         IN  IF food < 70 THEN <<Msg("CRITICAL", "Food supply {food} days - Emergency!", food)>>
             ELSE IF food < 300 THEN <<Msg("WARNING", "Food supply {food} days - Ration required", food)>>
             ELSE <<Msg("OK", "Food supply {food} days - Adequate", food)>>

water_feedback(data) ==
    IF ~Has(data, "water_supply_days") THEN <<>>
    ELSE LET water == data["water_supply_days"]
         IN  IF water < 30 THEN <<Msg("CRITICAL", "Water supply {water} days - Emergency!", water)>>
             ELSE IF water < 140 THEN <<Msg("WARNING", "Water supply {water} days - Ration required", water)>>
             ELSE <<Msg("OK", "Water supply {water} days - Adequate", water)>>

overall_feedback(status, confidence) ==
    IF status = "alive" /\ confidence > 80
    THEN <<Msg("OK", "Overall status: STABLE (confidence: {confidence:.1%})", confidence)>>
    ELSE IF status = "alive"
    THEN <<Msg("WARNING", "Overall status: MARGINAL (confidence: {confidence:.1%})", confidence)>>
    ELSE <<Msg("WARNING", "Overall status: CRITICAL (confidence: {confidence:.1%})", confidence)>>

generate_feedback(data, status, confidence) ==
    LET feedback == oxygen_feedback(data) \o co2_feedback(data)
                    \o temperature_feedback(data) \o humidity_feedback(data)
                    \o radiation_feedback(data) \o food_feedback(data)
                    \o water_feedback(data) \o overall_feedback(status, confidence)
    IN  IF feedback # <<>> THEN feedback ELSE <<Placeholder>>

(***************************************************************************)
(* train (main.py:186-278).  The handler awaits once, at file.read(),      *)
(* before it touches anything; from there to its return or raise it runs   *)
(* without yielding.  What the upload holds decides the statement that     *)
(* raises:                                                                 *)
(*   unparseable  json.loads raises on the content and on a line (209-212) *)
(*   no_status    no record has a "status" key (218)                       *)
(*   bad_label    a status other than "alive" / "dead" (225-226)           *)
(*   bad_value    a feature value DictVectorizer cannot take (242)         *)
(*   infinite     a feature value Infinity, which StandardScaler rejects   *)
(*                (246)                                                    *)
(*   ragged       records with different fields: the matrix holds NaN,     *)
(*                which the classifier rejects or not with the build (255) *)
(*   valid        nothing raises before the dumps                          *)
(* and a dump (267-269) raises when the write fails, leaving the file as   *)
(* it was or cut short.                                                    *)
(***************************************************************************)
Stages == <<"parse", "columns", "labels", "vectorizer", "scaler", "classifier",
            MODEL_PATH, VECTORIZER_PATH, SCALER_PATH, "return">>

StageNo(s) == CHOOSE i \in 1..Len(Stages) : Stages[i] = s

TrainPayloads == {"unparseable", "no_status", "bad_label", "bad_value", "infinite",
                  "ragged", "valid"}

\* An upload and the faults of its run: dim and classes are the vocabulary size
\* and the number of label classes of its records.
TrainInputs ==
    {t \in [payload : TrainPayloads, dim : 1..MaxDim, classes : {1, 2},
            fit_raises : BOOLEAN, fault : Paths \cup {"none"}, torn : BOOLEAN] :
        /\ t.fit_raises => t.payload = "ragged"
        /\ t.torn => t.fault # "none"
        /\ t.payload \in {"unparseable", "no_status", "bad_label", "bad_value"} => t.dim = 1
        /\ t.payload \notin {"ragged", "valid"} \/ t.fit_raises
              => t.classes = 2 /\ t.fault = "none"}

\* The statement of train that raises on input t ("return": none does).
RaisesAt(t) ==
    CASE t.payload = "unparseable" -> "parse"
      [] t.payload = "no_status" -> "columns"
      [] t.payload = "bad_label" -> "labels"
      [] t.payload = "bad_value" -> "vectorizer"
      [] t.payload = "infinite" -> "scaler"
      [] t.fit_raises -> "classifier"
      [] t.fault # "none" -> t.fault
      [] OTHER -> "return"

\* What the statement raises (219, 228: HTTPException(400); else a library error).
Raised(stage) ==
    IF stage \in {"columns", "labels"} THEN "HTTPException(400)"
    ELSE IF stage = "return" THEN "none"
    ELSE "Exception"

\* The handler's `except Exception` (277-278): HTTPException is an Exception.
TrainStatus(raised) == IF raised = "none" THEN 200 ELSE 500

\* A global that is bound to a new estimator at stage `made` and fitted by it.
Rebound(old, r, fitted, raisesAt, made) ==
    IF StageNo(raisesAt) > StageNo(made) THEN fitted
    ELSE IF raisesAt = made THEN Unfitted(r)
    ELSE old

\* joblib.dump(obj, path) (267-269).
Dump(old, obj, t, raisesAt, path) ==
    IF StageNo(raisesAt) > StageNo(path) THEN Dumped(obj)
    ELSE IF raisesAt = path /\ t.torn THEN Torn
    ELSE old

Unquiet == [i \in DOMAIN inflight |-> [inflight[i] EXCEPT !.quiet = FALSE]]

train(t) ==
    LET r == trains + 1
        at == RaisesAt(t)
        status == TrainStatus(Raised(at))
        vec == Fitted(r, t.dim, 0)
        sc == Fitted(r, t.dim, 0)
        rf == Fitted(r, t.dim, t.classes)
    IN  /\ trains < MaxTrains
        /\ trains' = r
        /\ feature_names' = IF StageNo(at) > StageNo("labels") THEN r ELSE feature_names
        /\ vectorizer' = Rebound(vectorizer, r, vec, at, "vectorizer")
        /\ scaler' = Rebound(scaler, r, sc, at, "scaler")
        /\ model' = Rebound(model, r, rf, at, "classifier")
        /\ training_stats' = IF StageNo(at) > StageNo("classifier") THEN r
                             ELSE training_stats
        /\ disk' = [p \in Paths |->
                      Dump(disk[p],
                           CASE p = MODEL_PATH -> rf
                             [] p = VECTORIZER_PATH -> vec
                             [] p = SCALER_PATH -> sc,
                           t, at, p)]
        /\ committed' = IF status = 200 THEN committed \cup {r} ELSE committed
        /\ inflight' = Unquiet
        /\ last' = [op |-> "train", payload |-> t.payload, at |-> at, status |-> status,
                    pre |-> Mem, predisk |-> disk, quiet |-> TRUE,
                    used |-> <<None, None, None>>, proba |-> <<0, 0>>,
                    response |-> NoResponse]
        /\ UNCHANGED call

(***************************************************************************)
(* predict (main.py:280-343) and predict_json (main.py:345-407).           *)
(***************************************************************************)
EmptyObs == [f \in {} |-> 0]

\* The observations the requests of this model carry.
SampleObs == {EmptyObs, [oxygen_level |-> 150, co2_level |-> 3]}

\* A request body: unparseable (json.loads raises, /predict only), bad_value (a
\* feature value DictVectorizer cannot take) or a valid observation.
PredictInputs ==
    {[kind |-> "unparseable", data |-> EmptyObs], [kind |-> "bad_value", data |-> EmptyObs]}
    \cup {[kind |-> "valid", data |-> d] : d \in SampleObs}

\* The classifier's probability of class "alive", in percent.
Probas == {10, 50, 80, 90}

\* "Load model if not in memory" (296-305, 362-371): the globals after it and how
\* it ended.  Each joblib.load binds its global before the next one runs.
LazyLoad(m, v, s, d) ==
    IF m # None
    THEN [model |-> m, vectorizer |-> v, scaler |-> s, error |-> "none"]
    ELSE IF d[MODEL_PATH].state = "absent"
    THEN [model |-> m, vectorizer |-> v, scaler |-> s, error |-> "HTTPException(400)"]
    ELSE IF d[MODEL_PATH].state # "ok"
    THEN [model |-> m, vectorizer |-> v, scaler |-> s, error |-> "Exception"]
    ELSE IF d[VECTORIZER_PATH].state # "ok"
    THEN [model |-> d[MODEL_PATH].obj, vectorizer |-> v, scaler |-> s,
          error |-> "Exception"]
    ELSE IF d[SCALER_PATH].state # "ok"
    THEN [model |-> d[MODEL_PATH].obj, vectorizer |-> d[VECTORIZER_PATH].obj,
          scaler |-> s, error |-> "Exception"]
    ELSE [model |-> d[MODEL_PATH].obj, vectorizer |-> d[VECTORIZER_PATH].obj,
          scaler |-> d[SCALER_PATH].obj, error |-> "none"]

\* The status of a request that ended with `error` (FastAPI answers an exception
\* that is no HTTPException with 500).
ErrorStatus(error) ==
    IF error = "none" THEN 200 ELSE IF error = "HTTPException(400)" THEN 400 ELSE 500

\* The try block up to the response (307-319, 373-383): whether a statement raises.
\* transform and predict raise on None, on an unfitted estimator and on a vector
\* of another length than the estimator was fitted on.
InferRaises(p, m, v, s) ==
    \/ p.kind = "unparseable"
    \/ ~v.fitted
    \/ p.kind = "bad_value"
    \/ ~s.fitted
    \/ s.dim # v.dim
    \/ ~m.fitted
    \/ m.dim # v.dim

\* model.predict / predict_proba on a fitted classifier: classes_ is sorted, so
\* proba is <<P(alive), P(dead)>>, and predict takes the first largest one.
Predict(proba) == IF proba[1] >= proba[2] THEN "alive" ELSE "dead"

Max(a, b) == IF a >= b THEN a ELSE b

\* The response (316-340, 380-404); proba[0], proba[1] of the code are proba[1],
\* proba[2] here.
Response(data, proba) ==
    LET pred == Predict(proba)
        confidence == Max(proba[1], proba[2])
    IN  [astronomer_status |-> pred,
         confidence |-> confidence,
         risk_level |-> calculate_risk_level(data, pred, confidence),
         feedback |-> generate_feedback(data, pred, confidence),
         alive |-> IF pred = "alive" THEN proba[1] ELSE proba[2],
         dead |-> IF pred = "alive" THEN proba[2] ELSE proba[1]]

IdleSlot == [busy |-> FALSE, input |-> [kind |-> "", data |-> EmptyObs], pre |-> Mem0,
             quiet |-> TRUE]

\* The try block on the current globals: what the request answers.  A classifier
\* fitted on one class has a one-entry proba, and proba[1] raises IndexError.
Answer(op, p, pre, quiet, pa) ==
    IF InferRaises(p, model, vectorizer, scaler) \/ model.classes # 2
    THEN [op |-> op, payload |-> p.kind, at |-> "try", status |-> 500, pre |-> pre, predisk |-> disk,
          quiet |-> quiet, used |-> <<None, None, None>>, proba |-> <<0, 0>>,
          response |-> NoResponse]
    ELSE [op |-> op, payload |-> p.kind, at |-> "return", status |-> 200, pre |-> pre, predisk |-> disk,
          quiet |-> quiet, used |-> <<vectorizer, scaler, model>>,
          proba |-> <<pa, 100 - pa>>, response |-> Response(p.data, <<pa, 100 - pa>>)]

\* /predict up to its `await file.read()` (294-309).
predict_begin(i, p) ==
    LET ld == LazyLoad(model, vectorizer, scaler, disk)
    IN  /\ ~inflight[i].busy
        /\ model' = ld.model
        /\ vectorizer' = ld.vectorizer
        /\ scaler' = ld.scaler
        /\ inflight' = [j \in DOMAIN inflight |->
                          IF j # i THEN Unquiet[j]
                          ELSE IF ld.error = "none"
                               THEN [busy |-> TRUE, input |-> p, pre |-> Mem, quiet |-> TRUE]
                               ELSE inflight[i]]
        /\ last' = [op |-> "predict", payload |-> p.kind,
                    at |-> IF ld.error = "none" THEN "await" ELSE "load",
                    status |-> IF ld.error = "none" THEN 0 ELSE ErrorStatus(ld.error),
                    pre |-> Mem, predisk |-> disk, quiet |-> TRUE,
                    used |-> <<None, None, None>>, proba |-> <<0, 0>>,
                    response |-> NoResponse]
        /\ UNCHANGED <<feature_names, training_stats, disk, trains, committed, call>>

\* /predict from the await on (309-343).
predict_resume(i, pa) ==
    /\ inflight[i].busy
    /\ last' = Answer("predict", inflight[i].input, inflight[i].pre, inflight[i].quiet, pa)
    /\ inflight' = [j \in DOMAIN inflight |-> IF j = i THEN IdleSlot ELSE Unquiet[j]]
    /\ UNCHANGED <<model, vectorizer, scaler, feature_names, training_stats, disk,
                   trains, committed, call>>

\* /predict-json (360-407): no await, the handler runs in one piece.
predict_json(p, pa) ==
    LET ld == LazyLoad(model, vectorizer, scaler, disk)
        raises == InferRaises(p, ld.model, ld.vectorizer, ld.scaler)
                  \/ ld.model.classes # 2
    IN  /\ p.kind # "unparseable"
        /\ model' = ld.model
        /\ vectorizer' = ld.vectorizer
        /\ scaler' = ld.scaler
        /\ inflight' = Unquiet
        /\ last' = [op |-> "predict_json", payload |-> p.kind,
                    at |-> IF ld.error # "none" THEN "load"
                           ELSE IF raises THEN "try" ELSE "return",
                    status |-> IF ld.error # "none" THEN ErrorStatus(ld.error)
                               ELSE IF raises THEN 500 ELSE 200,
                    pre |-> Mem, predisk |-> disk, quiet |-> TRUE,
                    used |-> IF ld.error = "none" /\ ~raises
                             THEN <<ld.vectorizer, ld.scaler, ld.model>>
                             ELSE <<None, None, None>>,
                    proba |-> IF ld.error = "none" /\ ~raises THEN <<pa, 100 - pa>>
                              ELSE <<0, 0>>,
                    response |-> IF ld.error = "none" /\ ~raises
                                 THEN Response(p.data, <<pa, 100 - pa>>)
                                 ELSE NoResponse]
        /\ UNCHANGED <<feature_names, training_stats, disk, trains, committed, call>>

\* The process ends and starts again: the module's globals are rebuilt (26-30),
\* the requests in flight are gone, the files stay.
restart ==
    /\ model' = None
    /\ vectorizer' = None
    /\ scaler' = None
    /\ feature_names' = 0
    /\ training_stats' = 0
    /\ inflight' = [i \in DOMAIN inflight |-> IdleSlot]
    /\ last' = [op |-> "restart", payload |-> "", at |-> "", status |-> 0, pre |-> Mem,
                predisk |-> disk, quiet |-> TRUE, used |-> <<None, None, None>>,
                proba |-> <<0, 0>>, response |-> NoResponse]
    /\ UNCHANGED <<disk, trains, committed, call>>

NoCall == [fn |-> "none"]

\* The process after its start, no file written yet.
Boot ==
    /\ model = None
    /\ vectorizer = None
    /\ scaler = None
    /\ feature_names = 0
    /\ training_stats = 0
    /\ disk = Disk0
    /\ inflight = [i \in 1..MaxInflight |-> IdleSlot]
    /\ trains = 0
    /\ committed = {}
    /\ last = [op |-> "start", payload |-> "", at |-> "", status |-> 0, pre |-> Mem0,
               predisk |-> Disk0, quiet |-> TRUE, used |-> <<None, None, None>>,
               proba |-> <<0, 0>>, response |-> NoResponse]

Init == Boot /\ call = NoCall

Next ==
    \/ \E t \in TrainInputs : train(t)
    \/ \E i \in 1..MaxInflight, p \in PredictInputs : predict_begin(i, p)
    \/ \E i \in 1..MaxInflight, pa \in Probas : predict_resume(i, pa)
    \/ \E p \in PredictInputs, pa \in Probas : predict_json(p, pa)
    \/ restart

Spec == Init /\ [][Next]_vars

(***************************************************************************)
(* The rule cascades on their own: the arguments of one call are drawn at  *)
(* the start, the call computes the result.                                *)
(***************************************************************************)
\* o restricted to the fields whose value is not `skip`.
Present(o, skip) == [f \in {g \in DOMAIN o : o[g] # skip} |-> o[f]]

Labels == {"alive", "dead"}

Confidences == {50, 80, 90}

\* Values on both sides of every threshold of calculate_risk_level; -1 marks a
\* field the observation does not hold.
RiskObs ==
    {Present(o, -1) :
        o \in [oxygen_level : {-1, 150, 179, 180, 194, 195, 210, 235, 236, 250, 251},
               co2_level : {-1, 3, 10, 11},
               radiation : {-1, 5, 6},
               food_supply_days : {-1, 69, 70},
               water_supply_days : {-1, 29, 30},
               heart_rate : {-1, 700}]}

RiskCalls ==
    [fn : {"calculate_risk_level"}, data : RiskObs, status : Labels,
     confidence : Confidences, done : {FALSE}, result : {""}]

risk_call ==
    /\ call.fn = "calculate_risk_level"
    /\ ~call.done
    /\ call' = [call EXCEPT !.done = TRUE,
                            !.result = calculate_risk_level(call.data, call.status,
                                                            call.confidence)]
    /\ UNCHANGED <<model, vectorizer, scaler, feature_names, training_stats, disk,
                   inflight, trains, committed, last>>

InitRisk == Boot /\ call \in RiskCalls

SpecRisk == InitRisk /\ [][risk_call]_vars

\* Observations for generate_feedback: every recognized field present or not,
\* and two fields it does not know.
FeedbackObs ==
    {Present(o, -1) :
        o \in [oxygen_level : {-1, 170, 210},
               co2_level : {-1, 8},
               temperature : {-1, 100, 220},
               heat : {-1, 350},
               humidity : {-1, 500},
               radiation : {-1, 3},
               food_supply_days : {-1, 60},
               water_supply_days : {-1, 140},
               heart_rate : {-1, 700},
               pressure : {-1, 1013}]}

FeedbackCalls ==
    [fn : {"generate_feedback"}, data : FeedbackObs, status : Labels,
     confidence : Confidences, done : {FALSE}, result : {<<>>}]

feedback_call ==
    /\ call.fn = "generate_feedback"
    /\ ~call.done
    /\ call' = [call EXCEPT !.done = TRUE,
                            !.result = generate_feedback(call.data, call.status,
                                                         call.confidence)]
    /\ UNCHANGED <<model, vectorizer, scaler, feature_names, training_stats, disk,
                   inflight, trains, committed, last>>

InitFeedback == Boot /\ call \in FeedbackCalls

SpecFeedback == InitFeedback /\ [][feedback_call]_vars

(***************************************************************************)
(* The encoding on its own.  Training (main.py:215-242) builds a DataFrame *)
(* from all records, drops "status", turns the rows back into dicts and    *)
(* fits and applies a DictVectorizer; inference (main.py:313, 377) applies *)
(* the fitted DictVectorizer to the one parsed record.  A number is a cell *)
(* that is NaN or holds a value.                                           *)
(***************************************************************************)
MaxRecords == 2

Num(v) == [nan |-> FALSE, v |-> v]

NaN == [nan |-> TRUE, v |-> 0]

\* Feature names in the order Python sorts them.
FeatureOrder == <<"co2_level", "oxygen_level", "radiation", "temperature">>

TrainFields == {"co2_level", "oxygen_level", "temperature"}

\* The observations over a set of fields, every value one of vals.
ObsOver(fields, vals) == UNION {[F -> vals] : F \in SUBSET fields}

\* A training record: an observation and its "status".
Labelled(o, l) ==
    [f \in DOMAIN o \cup {"status"} |-> IF f = "status" THEN Num(l) ELSE o[f]]

\* pd.DataFrame(data) (215): one column per key of any record, NaN where a record
\* has no such key.
DataFrame(data) ==
    LET columns == UNION {DOMAIN data[i] : i \in DOMAIN data}
    IN  [i \in DOMAIN data |->
           [c \in columns |-> IF c \in DOMAIN data[i] THEN data[i][c] ELSE NaN]]

\* df.drop(columns=["status"]).to_dict(orient="records") (234).
DropStatus(df) ==
    [i \in DOMAIN df |-> [c \in DOMAIN df[i] \ {"status"} |-> df[i][c]]]

\* DictVectorizer.fit: the sorted names of the keys of the dicts it is given.
Vocabulary(X) ==
    LET names == UNION {DOMAIN X[i] : i \in DOMAIN X}
        In(f) == f \in names
    IN  SelectSeq(FeatureOrder, In)

\* DictVectorizer.transform of one dict: a slot per vocabulary entry, the dict's
\* value where it has the key and 0 elsewhere; other keys are skipped.
Transform(vocabulary, x) ==
    [j \in 1..Len(vocabulary) |->
        IF vocabulary[j] \in DOMAIN x THEN x[vocabulary[j]] ELSE Num(0)]

\* vectorizer.fit_transform(X) on the rows of the DataFrame (241-242).
FitTransform(data) ==
    LET X == DropStatus(DataFrame(data))
    IN  [vocabulary |-> Vocabulary(X),
         X_vect |-> [i \in DOMAIN X |-> Transform(Vocabulary(X), X[i])]]

EncodeCalls ==
    {[fn |-> "encode", data |-> data, record |-> x, done |-> 0, vocabulary |-> <<>>,
      X_vect |-> <<>>, X_new |-> <<>>] :
        data \in UNION {[1..n -> {Labelled(o, "alive") :
                                     o \in ObsOver(TrainFields, {Num(0), Num(5)})}] :
                          n \in 1..MaxRecords},
        x \in ObsOver(TrainFields \cup {"radiation"}, {Num(5)})}

\* The training path on call.data.
encode_fit ==
    /\ call.fn = "encode"
    /\ call.done = 0
    /\ call' = [call EXCEPT !.done = 1,
                            !.vocabulary = FitTransform(call.data).vocabulary,
                            !.X_vect = FitTransform(call.data).X_vect]
    /\ UNCHANGED <<model, vectorizer, scaler, feature_names, training_stats, disk,
                   inflight, trains, committed, last>>

\* The inference path on call.record with the vectorizer the training path fitted.
encode_transform ==
    /\ call.fn = "encode"
    /\ call.done = 1
    /\ call' = [call EXCEPT !.done = 2,
                            !.X_new = Transform(call.vocabulary, call.record)]
    /\ UNCHANGED <<model, vectorizer, scaler, feature_names, training_stats, disk,
                   inflight, trains, committed, last>>

InitEncode == Boot /\ call \in EncodeCalls

NextEncode == encode_fit \/ encode_transform

SpecEncode == InitEncode /\ [][NextEncode]_vars

(***************************************************************************)
(* Claims on the handlers                                                  *)
(***************************************************************************)
Inference == {"predict", "predict_json"}

\* C1: a train call that fails leaves the five globals and the three files as
\* they were before the call.
FailedTrainChangesNothing ==
    last.op = "train" /\ last.status # 200 => Mem = last.pre /\ disk = last.predisk

\* C2: in every reachable state the files that hold an object all hold objects of
\* the same train call.
FilesFromOneRun ==
    \A p, q \in Paths :
        disk[p].state = "ok" /\ disk[q].state = "ok" => disk[p].obj.run = disk[q].obj.run

\* C3: a predict or predict-json call that fails, with no other request run
\* between its start and its end, leaves model, vectorizer and scaler as they
\* were before the call.
FailedInferenceChangesNothing ==
    last.op \in Inference /\ last.status \in {400, 500} /\ last.quiet
        => /\ model = last.pre.model
           /\ vectorizer = last.pre.vectorizer
           /\ scaler = last.pre.scaler

\* C4: a train call on records with a label outside {"alive", "dead"}, or with no
\* label field, ends with the validation error (400), not the training failure
\* (500), and changes neither the globals nor the files.
BadLabelIsValidationError ==
    last.op = "train" /\ last.payload \in {"bad_label", "no_status"}
        => last.status = 400 /\ Mem = last.pre /\ disk = last.predisk

\* C5: every inference that answers computed with a vectorizer, a scaler and a
\* model of one train call, and that call returned (built and dumped all three).
InferenceUsesOneCommittedRun ==
    last.op \in Inference /\ last.status = 200
        => /\ last.used[1].run = last.used[3].run
           /\ last.used[2].run = last.used[3].run
           /\ last.used[3].run \in committed

\* C10: in every answer prediction_probabilities.alive is the classifier's
\* probability of "alive" and .dead its probability of "dead", so the reported
\* probability of the predicted label is the confidence.
ProbabilitiesNameTheirClass ==
    last.op \in Inference /\ last.status = 200
        => /\ last.response.alive = last.proba[1]
           /\ last.response.dead = last.proba[2]
           /\ last.response.confidence =
                 IF last.response.astronomer_status = "alive"
                 THEN last.response.alive ELSE last.response.dead

(***************************************************************************)
(* Claims on the rule cascades                                             *)
(***************************************************************************)
RiskDone == call.fn = "calculate_risk_level" /\ call.done

\* The score table of the Risk Scorer, one row per line: a row adds its delta when
\* its field is present and its condition holds.
TableScore(d) ==
      (IF Has(d, "oxygen_level") /\ (d["oxygen_level"] < 180 \/ d["oxygen_level"] > 250)
       THEN 3 ELSE 0)
    + (IF Has(d, "oxygen_level")
          /\ (\/ (180 <= d["oxygen_level"] /\ d["oxygen_level"] < 195)
              \/ (235 < d["oxygen_level"] /\ d["oxygen_level"] <= 250))
       THEN 1 ELSE 0)
    + (IF Has(d, "co2_level") /\ d["co2_level"] > 10 THEN 3 ELSE 0)
    + (IF Has(d, "radiation") /\ d["radiation"] > 5 THEN 3 ELSE 0)
    + (IF Has(d, "food_supply_days") /\ d["food_supply_days"] < 70 THEN 2 ELSE 0)
    + (IF Has(d, "water_supply_days") /\ d["water_supply_days"] < 30 THEN 2 ELSE 0)

\* C6: calculate_risk_level returns CRITICAL for "dead" whatever the score;
\* otherwise HIGH for a table score of at least 5, MEDIUM in [2,5), LOW below 2;
\* and no confidence gives another result.
RiskLevelFollowsTable ==
    RiskDone =>
        /\ call.status = "dead" => call.result = "CRITICAL"
        /\ call.status # "dead" /\ TableScore(call.data) >= 5 => call.result = "HIGH"
        /\ call.status # "dead" /\ TableScore(call.data) >= 2 /\ TableScore(call.data) < 5
              => call.result = "MEDIUM"
        /\ call.status # "dead" /\ TableScore(call.data) < 2 => call.result = "LOW"
        /\ \A c \in 0..100 :
              calculate_risk_level(call.data, call.status, c) = call.result

\* C6 witness: an alive observation whose score is exactly 5, from the +1 oxygen
\* band and two +2 rows, has been scored HIGH.
RiskHighReached ==
    /\ RiskDone
    /\ call.status = "alive"
    /\ Has(call.data, "oxygen_level") /\ call.data["oxygen_level"] = 236
    /\ TableScore(call.data) = 5
    /\ call.result = "HIGH"

ObsC7 == [oxygen_level |-> 150, co2_level |-> 3]

\* C7 as stated: {oxygen_level: 15, co2_level: 0.3} scores 3 and is HIGH when
\* alive, CRITICAL when dead.
RiskExampleHigh ==
    RiskDone /\ call.data = ObsC7 =>
        /\ risk_score(call.data) = 3
        /\ call.status = "alive" => call.result = "HIGH"
        /\ call.status = "dead" => call.result = "CRITICAL"

\* C7 amended: {oxygen_level: 15, co2_level: 0.3} scores 3 and is MEDIUM when
\* alive, CRITICAL when dead.
RiskExampleMedium ==
    RiskDone /\ call.data = ObsC7 =>
        /\ risk_score(call.data) = 3
        /\ call.status = "alive" => call.result = "MEDIUM"
        /\ call.status = "dead" => call.result = "CRITICAL"

\* C7 witness: the example has been scored for the label "alive".
RiskExampleReached ==
    RiskDone /\ call.data = ObsC7 /\ call.status = "alive" /\ call.result = "MEDIUM"

Recognized == {"oxygen_level", "co2_level", "temperature", "heat", "humidity",
               "radiation", "food_supply_days", "water_supply_days"}

\* C8: for an observation with none of the recognized fields generate_feedback
\* returns the placeholder message alone, and it never returns an empty list.
FeedbackPlaceholderAlone ==
    call.fn = "generate_feedback" /\ call.done =>
        /\ call.result # <<>>
        /\ DOMAIN call.data \cap Recognized = {} => call.result = <<Placeholder>>

\* The features of training record i as the request of an inference would hold them.
Features(i) == [f \in DOMAIN call.data[i] \ {"status"} |-> call.data[i][f]]

\* C9: an observation is encoded to the same vector on the training path and on
\* the inference path: a vocabulary field it does not hold is 0 in both, fields
\* outside the vocabulary are dropped, and the length is the vocabulary's.
EncodingPathsAgree ==
    call.fn = "encode" /\ call.done = 2 =>
        /\ \A i \in DOMAIN call.data :
              /\ call.X_vect[i] = Transform(call.vocabulary, Features(i))
              /\ Len(call.X_vect[i]) = Len(call.vocabulary)
              /\ \A j \in 1..Len(call.vocabulary) :
                    call.vocabulary[j] \notin DOMAIN call.data[i]
                        => call.X_vect[i][j] = Num(0)
        /\ Len(call.X_new) = Len(call.vocabulary)
        /\ \A j \in 1..Len(call.vocabulary) :
              call.X_new[j] = IF call.vocabulary[j] \in DOMAIN call.record
                              THEN call.record[call.vocabulary[j]] ELSE Num(0)

====
